---- MODULE Spec2Model ----
(***************************************************************************)
(* Klantroef media analytics API: the media routes (src/routes/media.js),  *)
(* the account routes (src/routes/auth.js), the stream redemption route of *)
(* src/server.js and the authentication middleware                         *)
(* (src/middleware/auth.js), as a state machine over the three MongoDB     *)
(* collections, the in-memory rate-limit store and the requests in         *)
(* flight.  A handler suspends at every `await`; each action below is the  *)
(* code that runs between two suspensions of one request.                  *)
(* Time is in seconds (the resolution of the `iat`/`exp` claims of a JWT). *)
(***************************************************************************)
EXTENDS Integers, Sequences, FiniteSets, TLC

VARIABLES
    now,      \* the wall clock (Date.now(), in seconds)
    env,      \* process.env: the two signing secrets
    users,    \* AdminUser collection, in insertion order
    assets,   \* MediaAsset collection: _id -> document
    logs,     \* MediaViewLog collection, in insertion order
    hits,     \* the rate limiter's store: key (IP) -> [totalHits, resetTime]
    issued,   \* tokens handed out to clients so far
    reqs,     \* every request received so far, with its position and response
    faults    \* number of store operations that have failed so far

vars == <<now, env, users, assets, logs, hits, issued, reqs, faults>>

(* ------------------------------ bounds -------------------------------- *)
\* requests received in a run of one subsystem
MaxReqs == 3
\* requests received in a run of the whole API
MaxReqsAll == 2
\* store operations that fail in a run
MaxFaults == 1
\* requests being handled at the same time
MaxInFlight == 2

(* ------------------------- program constants -------------------------- *)
WindowSec == 60
RateLimitMax == 1
StreamTTL == 600
SessionTTL == 3600
DaySec == 86400

(* --------------------------- input domains ---------------------------- *)
IPs == {"ip1", "ip2"}
ObjectIds == {"a1", "a2"}
MalformedIds == {"zz"}
ReqIds == ObjectIds \cup MalformedIds
Secrets == {"k1", "k2"}

(* ------------------------------ tokens -------------------------------- *)
\* jwt.sign(payload, secret, {expiresIn: ttl}) at time t
Sign(payload, secret, ttl, t) ==
    [fmt |-> "jwt", key |-> secret, payload |-> payload, iat |-> t, exp |-> t + ttl]

VerifyNoExpiry(tok, secret, t) ==
    /\ tok.fmt = "jwt"
    /\ tok.key = secret

\* jwt.verify(token, secret, cb): err unless well formed, signed with
\* `secret` and not expired (jsonwebtoken: expired when now >= exp)
Verify(tok, secret, t) ==
    /\ tok.fmt = "jwt"
    /\ tok.key = secret
    /\ t < tok.exp

MalformedToken == [fmt |-> "garbage"]

(* ------------------------ Authorization header ------------------------ *)
\* A header value is a string: a sequence of words, spaces and token texts.
Sp == [k |-> "sp"]
Word(w) == [k |-> "word", w |-> w]
Tok(t) == [k |-> "tok", t |-> t]
NoHeader == [present |-> FALSE, chars |-> <<>>]
Header(chars) == [present |-> TRUE, chars |-> chars]

\* String.prototype.split(' ')
RECURSIVE Split(_)
Split(s) ==
    IF \E i \in 1..Len(s) : s[i].k = "sp"
    THEN LET i == CHOOSE j \in 1..Len(s) :
                      /\ s[j].k = "sp"
                      /\ \A m \in 1..(j - 1) : s[m].k # "sp"
         IN  <<SubSeq(s, 1, i - 1)>> \o Split(SubSeq(s, i + 1, Len(s)))
    ELSE <<s>>

\* const token = authHeader && authHeader.split(' ')[1];
\* undefined and the empty string are both falsy: both are <<>> here
BearerToken(h) ==
    IF ~h.present \/ Len(h.chars) = 0
    THEN <<>>
    ELSE LET parts == Split(h.chars)
         IN  IF Len(parts) >= 2 THEN parts[2] ELSE <<>>

\* the text handed to jwt.verify, read as a token: anything that is not
\* exactly one token text is malformed
Decode(text) ==
    IF Len(text) = 1 /\ text[1].k = "tok" THEN text[1].t ELSE MalformedToken

\* config.jwtSecret, the secret the middleware verifies with
jwtSecret == env.JWT_SECRET

AuthNoVerify(h, t) ==
    IF Len(BearerToken(h)) = 0 THEN 401 ELSE 0

\* authenticateToken: 401, 403, or 0 when next() is called
authenticateToken(h, t) ==
    IF Len(BearerToken(h)) = 0
    THEN 401
    ELSE IF ~Verify(Decode(BearerToken(h)), jwtSecret, t) THEN 403 ELSE 0

(* ---------------------------- rate limiter ---------------------------- *)
\* express-rate-limit with its default in-memory store, keyed by req.ip:
\* one counter per key and a reset time one window after the key's first hit
NoHits == [totalHits |-> 0, resetTime |-> 0]

IncrementNoCount(h, key, t) ==
    IF t >= h[key].resetTime
    THEN [h EXCEPT ![key] = [totalHits |-> 1, resetTime |-> t + WindowSec]]
    ELSE h

\* store.increment(key): one synchronous read-modify-write
Increment(h, key, t) ==
    IF t >= h[key].resetTime
    THEN [h EXCEPT ![key] = [totalHits |-> 1, resetTime |-> t + WindowSec]]
    ELSE [h EXCEPT ![key].totalHits = @ + 1]

LimiterRejectsSecondExcess(totalHits) == totalHits > RateLimitMax + 1

\* the limiter answers 429 when totalHits > max
LimiterRejects(totalHits) == totalHits > RateLimitMax

(* ------------------------------ documents ----------------------------- *)
\* mongoose.Types.ObjectId.isValid(id)
IsValid(id) == id \in ObjectIds

\* MediaAsset.findById(id): the document, or null
Null == [null |-> TRUE]
FindById(id) == IF id \in DOMAIN assets THEN assets[id] ELSE Null

\* new MediaAsset({title, type, file_url})
MediaAsset(id, body) ==
    [_id |-> id, title |-> body.title, type |-> body.type, file_url |-> body.file_url]

\* new MediaViewLog({media_id, viewed_by_ip, timestamp}); the schema fills a
\* missing timestamp with the creation time
MediaViewLog(media_id, ip, timestamp) ==
    [media_id |-> media_id, viewed_by_ip |-> ip, timestamp |-> timestamp]

(* ------------------------------ requests ------------------------------ *)
NoBody == [title |-> "", type |-> "", file_url |-> ""]

\* a request as received; `limit` is
\* the reset time of the rate-limit window that counted it (-1: it never
\* reached the limiter) and `hit` the count the limiter returned, `wrote` the
\* number of documents it has inserted, `failed` whether a store operation of
\* it failed, `seen` the length of the view log when it read it
Request(route, ip, id, hdr, body, tok) ==
    [route |-> route, ip |-> ip, id |-> id, hdr |-> hdr, body |-> body, tok |-> tok,
     pc |-> "new", status |-> 0, msg |-> "", out |-> Null,
     limit |-> -1, hit |-> 0, wrote |-> 0, failed |-> FALSE, seen |-> -1,
     doc |-> Null]

Respond(r, status, msg, out) ==
    [r EXCEPT !.pc = "done", !.status = status, !.msg = msg, !.out = out]

ServerError(r) ==
    [Respond(r, 500, "Server error", Null) EXCEPT !.failed = TRUE]

\* a rejected promise that no try block of the handler covers: Express 4
\* leaves the request without a response, Express 5 hands the error to its
\* default error handler
Uncaught(r) ==
    { [r EXCEPT !.pc = "hung", !.failed = TRUE],
      [Respond(r, 500, "framework error page", Null) EXCEPT !.failed = TRUE] }

Pending(i, route, pc) ==
    /\ i \in 1..Len(reqs)
    /\ reqs[i].route = route
    /\ reqs[i].pc = pc

(* --------------------------- store failures -------------------------- *)
\* the awaits that a try block of their handler covers, and those none does
Guarded ==
    {<<"media", "save">>, <<"streamUrl", "lookup">>, <<"streamUrl", "save">>,
     <<"view", "save">>, <<"analytics", "find">>,
     <<"signup", "find">>, <<"signup", "save">>, <<"login", "find">>}
Unguarded == {<<"view", "lookup">>, <<"analytics", "lookup">>}

\* the awaited store operation of request i rejects and the handler's catch
\* block answers
StoreFailsCaught(i) ==
    /\ faults < MaxFaults
    /\ i \in 1..Len(reqs)
    /\ <<reqs[i].route, reqs[i].pc>> \in Guarded
    /\ faults' = faults + 1
    /\ reqs' = [reqs EXCEPT ![i] = ServerError(@)]
    /\ UNCHANGED <<now, env, users, assets, logs, hits, issued>>

\* the awaited store operation of request i rejects outside any try block
StoreFailsUncaught(i) ==
    /\ faults < MaxFaults
    /\ i \in 1..Len(reqs)
    /\ <<reqs[i].route, reqs[i].pc>> \in Unguarded
    /\ faults' = faults + 1
    /\ \E u \in Uncaught(reqs[i]) : reqs' = [reqs EXCEPT ![i] = u]
    /\ UNCHANGED <<now, env, users, assets, logs, hits, issued>>

AuthMsg(status) ==
    IF status = 401 THEN "Unauthorized: No token provided" ELSE "Forbidden: Invalid token"

(* --------------------------- POST /media/:id/view --------------------- *)
ViewArriveLimiterFirst(ip, id, hdr) ==
    /\ LET r == Request("view", ip, id, hdr, NoBody, MalformedToken)
           a == authenticateToken(hdr, now)
           h == Increment(hits, ip, now)
           c == [r EXCEPT !.limit = h[ip].resetTime, !.hit = h[ip].totalHits]
       IN  /\ hits' = h
           /\ reqs' = Append(reqs,
                 IF LimiterRejects(h[ip].totalHits)
                 THEN Respond(c, 429, "Too many views logged from this IP, please try again later.", Null)
                 ELSE IF a # 0
                      THEN Respond(r, a, AuthMsg(a), Null)
                      ELSE IF ~IsValid(id)
                           THEN Respond(c, 400, "Invalid media ID", Null)
                           ELSE [c EXCEPT !.pc = "lookup"])
    /\ UNCHANGED <<now, env, users, assets, logs, issued, faults>>

\* authenticateToken, viewRateLimiter, then the handler up to its first await
ViewArrive(ip, id, hdr) ==
    /\ LET r == Request("view", ip, id, hdr, NoBody, MalformedToken)
           a == authenticateToken(hdr, now)
           h == Increment(hits, ip, now)
           c == [r EXCEPT !.limit = h[ip].resetTime, !.hit = h[ip].totalHits]
       IN  IF a # 0
           THEN /\ reqs' = Append(reqs, Respond(r, a, AuthMsg(a), Null))
                /\ hits' = hits
           ELSE /\ hits' = h
                /\ reqs' = Append(reqs,
                      IF LimiterRejects(h[ip].totalHits)
                      THEN Respond(c, 429, "Too many views logged from this IP, please try again later.", Null)
                      ELSE IF ~IsValid(id)
                           THEN Respond(c, 400, "Invalid media ID", Null)
                           ELSE [c EXCEPT !.pc = "lookup"])
    /\ UNCHANGED <<now, env, users, assets, logs, issued, faults>>

ViewLookupLogsFirst(i) ==
    /\ Pending(i, "view", "lookup")
    /\ logs' = Append(logs, MediaViewLog(reqs[i].id, reqs[i].ip, now))
    /\ reqs' = [reqs EXCEPT ![i] =
                  IF FindById(reqs[i].id) = Null
                  THEN Respond([@ EXCEPT !.wrote = @ + 1], 404, "Media not found", Null)
                  ELSE Respond([@ EXCEPT !.wrote = @ + 1], 201, "View logged", Null)]
    /\ UNCHANGED <<now, env, users, assets, hits, issued, faults>>

ViewLookupNoExistenceCheck(i) ==
    /\ Pending(i, "view", "lookup")
    /\ reqs' = [reqs EXCEPT ![i] =
                  [@ EXCEPT !.pc = "save",
                            !.doc = MediaViewLog(reqs[i].id, reqs[i].ip, now)]]
    /\ UNCHANGED <<now, env, users, assets, logs, hits, issued, faults>>

\* const media = await MediaAsset.findById(id) resolves
ViewLookup(i) ==
    /\ Pending(i, "view", "lookup")
    /\ LET media == FindById(reqs[i].id)
       IN  reqs' = [reqs EXCEPT ![i] =
              IF media = Null
              THEN Respond(@, 404, "Media not found", Null)
              ELSE [@ EXCEPT !.pc = "save",
                             !.doc = MediaViewLog(media._id, reqs[i].ip, now)]]
    /\ UNCHANGED <<now, env, users, assets, logs, hits, issued, faults>>

ViewSaveNoWrite(i) ==
    /\ Pending(i, "view", "save")
    /\ reqs' = [reqs EXCEPT ![i] = Respond(@, 201, "View logged", Null)]
    /\ UNCHANGED <<now, env, users, assets, logs, hits, issued, faults>>

\* await new MediaViewLog({...}).save() resolves
ViewSave(i) ==
    /\ Pending(i, "view", "save")
    /\ logs' = Append(logs, reqs[i].doc)
    /\ reqs' = [reqs EXCEPT ![i] =
                  Respond([@ EXCEPT !.wrote = @ + 1], 201, "View logged", Null)]
    /\ UNCHANGED <<now, env, users, assets, hits, issued, faults>>

(* ------------------------- GET /media/:id/analytics ------------------- *)
Day(timestamp) == timestamp \div DaySec

FindAll(id) == logs

FindWrongField(id) == SelectSeq(logs, LAMBDA e : e.viewed_by_ip = id)

\* MediaViewLog.find({ media_id: id })
Find(id) == SelectSeq(logs, LAMBDA e : e.media_id = id)

IPsOf(ls) == {ls[k].viewed_by_ip : k \in 1..Len(ls)}

RECURSIVE ViewsPerDayNoCount(_)
ViewsPerDayNoCount(ls) ==
    IF Len(ls) = 0
    THEN <<>>
    ELSE LET sofar == ViewsPerDayNoCount(SubSeq(ls, 1, Len(ls) - 1))
             day == ls[Len(ls)].timestamp \div DaySec
         IN  [d \in DOMAIN sofar \cup {day} |-> 1]

\* logs.forEach(log => views_per_day[day] = (views_per_day[day] || 0) + 1)
RECURSIVE ViewsPerDay(_)
ViewsPerDay(ls) ==
    IF Len(ls) = 0
    THEN <<>>
    ELSE LET sofar == ViewsPerDay(SubSeq(ls, 1, Len(ls) - 1))
             day == Day(ls[Len(ls)].timestamp)
         IN  IF day \in DOMAIN sofar
             THEN [sofar EXCEPT ![day] = @ + 1]
             ELSE [d \in DOMAIN sofar \cup {day} |-> IF d = day THEN 1 ELSE sofar[d]]

Summary(ls) ==
    [total_views |-> Len(ls),
     unique_ips |-> Cardinality(IPsOf(ls)),
     views_per_day |-> ViewsPerDay(ls)]

AnalyticsArrive(id, hdr) ==
    /\ LET r == Request("analytics", "", id, hdr, NoBody, MalformedToken)
           a == authenticateToken(hdr, now)
       IN  reqs' = Append(reqs,
              IF a # 0
              THEN Respond(r, a, AuthMsg(a), Null)
              ELSE IF ~IsValid(id)
                   THEN Respond(r, 400, "Invalid media ID", Null)
                   ELSE [r EXCEPT !.pc = "lookup"])
    /\ UNCHANGED <<now, env, users, assets, logs, hits, issued, faults>>

\* const media = await MediaAsset.findById(id) resolves
AnalyticsLookup(i) ==
    /\ Pending(i, "analytics", "lookup")
    /\ reqs' = [reqs EXCEPT ![i] =
          IF FindById(reqs[i].id) = Null
          THEN Respond(@, 404, "Media not found", Null)
          ELSE [@ EXCEPT !.pc = "find"]]
    /\ UNCHANGED <<now, env, users, assets, logs, hits, issued, faults>>

\* const logs = await MediaViewLog.find(...) resolves, then the aggregation
AnalyticsFind(i) ==
    /\ Pending(i, "analytics", "find")
    /\ reqs' = [reqs EXCEPT ![i] =
          Respond([@ EXCEPT !.seen = Len(logs)], 200, "", Summary(Find(reqs[i].id)))]
    /\ UNCHANGED <<now, env, users, assets, logs, hits, issued, faults>>

(* ------------------------ GET /media/:id/stream-url ------------------- *)
StreamUrlArriveLimited(ip, id) ==
    /\ LET r == Request("streamUrl", ip, id, NoHeader, NoBody, MalformedToken)
           h == Increment(hits, ip, now)
       IN  /\ hits' = h
           /\ reqs' = Append(reqs,
                 IF LimiterRejects(h[ip].totalHits)
                 THEN Respond(r, 429, "Too many views logged from this IP, please try again later.", Null)
                 ELSE IF ~IsValid(id)
                      THEN Respond(r, 400, "Invalid media ID", Null)
                      ELSE [r EXCEPT !.pc = "lookup"])
    /\ UNCHANGED <<now, env, users, assets, logs, issued, faults>>

StreamUrlArrive(ip, id) ==
    /\ LET r == Request("streamUrl", ip, id, NoHeader, NoBody, MalformedToken)
       IN  reqs' = Append(reqs,
              IF ~IsValid(id)
              THEN Respond(r, 400, "Invalid media ID", Null)
              ELSE [r EXCEPT !.pc = "lookup"])
    /\ UNCHANGED <<now, env, users, assets, logs, hits, issued, faults>>

\* await MediaAsset.findById(id) resolves, then jwt.sign and the
\* construction of the log document, up to await save()
StreamUrlLookup(i) ==
    /\ Pending(i, "streamUrl", "lookup")
    /\ LET media == FindById(reqs[i].id)
       IN  reqs' = [reqs EXCEPT ![i] =
              IF media = Null
              THEN Respond(@, 404, "Media not found", Null)
              ELSE [@ EXCEPT
                      !.pc = "save",
                      !.tok = Sign([mediaId |-> media._id, fileUrl |-> media.file_url],
                                   env.STREAM_TOKEN_SECRET, StreamTTL, now),
                      !.doc = MediaViewLog(media._id, reqs[i].ip, now)]]
    /\ UNCHANGED <<now, env, users, assets, logs, hits, issued, faults>>

StreamUrlSaveNoLog(i) ==
    /\ Pending(i, "streamUrl", "save")
    /\ logs' = logs
    /\ issued' = issued \cup {reqs[i].tok}
    /\ reqs' = [reqs EXCEPT ![i] = Respond(@, 200, "", reqs[i].tok)]
    /\ UNCHANGED <<now, env, users, assets, hits, faults>>

\* await new MediaViewLog({...}).save() resolves, then res.json
StreamUrlSave(i) ==
    /\ Pending(i, "streamUrl", "save")
    /\ logs' = Append(logs, reqs[i].doc)
    /\ issued' = issued \cup {reqs[i].tok}
    /\ reqs' = [reqs EXCEPT ![i] =
                  Respond([@ EXCEPT !.wrote = @ + 1], 200, "", reqs[i].tok)]
    /\ UNCHANGED <<now, env, users, assets, hits, faults>>

(* ------------------ GET /stream/:token, GET /media/stream/:token ------ *)
\* res.send(`Access granted to stream file: ${decoded.fileUrl}`)
Granted(decoded) ==
    [fileUrl |-> IF "fileUrl" \in DOMAIN decoded.payload
                 THEN decoded.payload.fileUrl ELSE "undefined"]

RedeemSessionSecret(route, tok) ==
    /\ LET r == Request(route, "", "", NoHeader, NoBody, tok)
       IN  reqs' = Append(reqs,
              IF ~Verify(tok, env.JWT_SECRET, now)
              THEN Respond(r, 403, "Forbidden: Invalid or expired stream link.", Null)
              ELSE Respond(r, 200, "Access granted to stream file", Granted(tok)))
    /\ UNCHANGED <<now, env, users, assets, logs, hits, issued, faults>>

RedeemOnce(route, tok) ==
    /\ LET r == Request(route, "", "", NoHeader, NoBody, tok)
           used == \E j \in 1..Len(reqs) : reqs[j].tok = tok /\ reqs[j].status = 200
       IN  reqs' = Append(reqs,
              IF used \/ ~Verify(tok, env.STREAM_TOKEN_SECRET, now)
              THEN Respond(r, 403, "Forbidden: Invalid or expired stream link.", Null)
              ELSE Respond(r, 200, "Access granted to stream file", Granted(tok)))
    /\ UNCHANGED <<now, env, users, assets, logs, hits, issued, faults>>

\* jwt.verify(token, STREAM_TOKEN_SECRET, cb): no await, no store access
Redeem(route, tok) ==
    /\ LET r == Request(route, "", "", NoHeader, NoBody, tok)
       IN  reqs' = Append(reqs,
              IF ~Verify(tok, env.STREAM_TOKEN_SECRET, now)
              THEN Respond(r, 403, "Forbidden: Invalid or expired stream link.", Null)
              ELSE Respond(r, 200, "Access granted to stream file", Granted(tok)))
    /\ UNCHANGED <<now, env, users, assets, logs, hits, issued, faults>>

(* ------------------------------ POST /media --------------------------- *)
MissingField(body) == body.title = "" \/ body.type = "" \/ body.file_url = ""

FreeIds == ObjectIds \ DOMAIN assets

MediaArriveNoTypeCheck(hdr, body) ==
    /\ Cardinality(FreeIds) > Cardinality({i \in 1..Len(reqs) : Pending(i, "media", "save")})
    /\ LET r == Request("media", "", "", hdr, body, MalformedToken)
           a == authenticateToken(hdr, now)
       IN  reqs' = Append(reqs,
              IF a # 0
              THEN Respond(r, a, AuthMsg(a), Null)
              ELSE IF MissingField(body)
                   THEN Respond(r, 400, "title, type, and file_url required", Null)
                   ELSE [r EXCEPT !.pc = "save"])
    /\ UNCHANGED <<now, env, users, assets, logs, hits, issued, faults>>

MediaArrive(hdr, body) ==
    /\ Cardinality(FreeIds) > Cardinality({i \in 1..Len(reqs) : Pending(i, "media", "save")})
    /\ LET r == Request("media", "", "", hdr, body, MalformedToken)
           a == authenticateToken(hdr, now)
       IN  reqs' = Append(reqs,
              IF a # 0
              THEN Respond(r, a, AuthMsg(a), Null)
              ELSE IF MissingField(body)
                   THEN Respond(r, 400, "title, type, and file_url required", Null)
                   ELSE IF body.type \notin {"video", "audio"}
                        THEN Respond(r, 400, "type must be 'video' or 'audio'", Null)
                        ELSE [r EXCEPT !.pc = "save"])
    /\ UNCHANGED <<now, env, users, assets, logs, hits, issued, faults>>

\* await media.save() resolves; the driver gives the document an _id no
\* other document has
MediaSave(i) ==
    /\ Pending(i, "media", "save")
    /\ \E id \in FreeIds :
          LET media == MediaAsset(id, reqs[i].body)
          IN  /\ assets' = [x \in DOMAIN assets \cup {id} |->
                               IF x = id THEN media ELSE assets[x]]
              /\ reqs' = [reqs EXCEPT ![i] =
                            Respond([@ EXCEPT !.wrote = @ + 1], 201, "", media)]
    /\ UNCHANGED <<now, env, users, logs, hits, issued, faults>>

(* ------------------------- POST /auth/signup -------------------------- *)
Emails == {"e1", "e2"}
Passwords == {"p1", "p2"}
UserIds == {"u1", "u2", "u3"}

AdminUser(id, email, hashed_password) ==
    [_id |-> id, email |-> email, hashed_password |-> hashed_password]

\* bcrypt.hash(password, 10) and bcrypt.compare(password, hash)
Hash(password) == [bcrypt |-> password, rounds |-> 10]
Compare(password, hashed) == hashed = Hash(password)

WithEmail(email) == SelectSeq(users, LAMBDA u : u.email = email)

\* AdminUser.findOne({ email }): the first match in natural order, or null
FindOne(email) ==
    IF Len(WithEmail(email)) = 0 THEN Null ELSE WithEmail(email)[1]

FreeUserIds == UserIds \ {users[k]._id : k \in 1..Len(users)}

\* const { email, password } = req.body; a field left out is "" here
SignupArrive(body) ==
    /\ Cardinality(FreeUserIds) >
          Cardinality({i \in 1..Len(reqs) :
                          reqs[i].route = "signup" /\ reqs[i].pc \in {"find", "hash", "save"}})
    /\ LET r == Request("signup", "", "", NoHeader, body, MalformedToken)
       IN  reqs' = Append(reqs,
              IF body.email = "" \/ body.password = ""
              THEN Respond(r, 400, "Email and password required", Null)
              ELSE [r EXCEPT !.pc = "find"])
    /\ UNCHANGED <<now, env, users, assets, logs, hits, issued, faults>>

\* const exists = await AdminUser.findOne({ email }) resolves
SignupFind(i) ==
    /\ Pending(i, "signup", "find")
    /\ reqs' = [reqs EXCEPT ![i] =
                  IF FindOne(reqs[i].body.email) # Null
                  THEN Respond(@, 409, "User already exists", Null)
                  ELSE [@ EXCEPT !.pc = "hash"]]
    /\ UNCHANGED <<now, env, users, assets, logs, hits, issued, faults>>

\* await bcrypt.hash(password, 10) resolves; new AdminUser({...})
SignupHash(i) ==
    /\ Pending(i, "signup", "hash")
    /\ reqs' = [reqs EXCEPT ![i] =
                  [@ EXCEPT !.pc = "save",
                            !.doc = [email |-> reqs[i].body.email,
                                     hashed_password |-> Hash(reqs[i].body.password)]]]
    /\ UNCHANGED <<now, env, users, assets, logs, hits, issued, faults>>

\* what user.save() can do: the collection accepts the document, or, when
\* the AdminUser schema declares email unique and the email is already
\* stored, rejects it with a duplicate-key error
SaveOutcomes(doc) ==
    IF FindOne(doc.email) = Null THEN {"inserted"} ELSE {"inserted", "duplicateKey"}

\* await user.save() settles
SignupSave(i) ==
    /\ Pending(i, "signup", "save")
    /\ \E outcome \in SaveOutcomes(reqs[i].doc), id \in FreeUserIds :
          IF outcome = "inserted"
          THEN LET user == AdminUser(id, reqs[i].doc.email, reqs[i].doc.hashed_password)
               IN  /\ users' = Append(users, user)
                   /\ reqs' = [reqs EXCEPT ![i] =
                                 Respond([@ EXCEPT !.wrote = @ + 1], 201, "",
                                         [id |-> user._id, email |-> user.email])]
          ELSE /\ users' = users
               /\ reqs' = [reqs EXCEPT ![i] = ServerError(@)]
    /\ UNCHANGED <<now, env, assets, logs, hits, issued, faults>>

(* -------------------------- POST /auth/login -------------------------- *)
LoginArrive(body) ==
    /\ LET r == Request("login", "", "", NoHeader, body, MalformedToken)
       IN  reqs' = Append(reqs,
              IF body.email = "" \/ body.password = ""
              THEN Respond(r, 400, "Email and password required", Null)
              ELSE [r EXCEPT !.pc = "find"])
    /\ UNCHANGED <<now, env, users, assets, logs, hits, issued, faults>>

\* const user = await AdminUser.findOne({ email }) resolves
LoginFind(i) ==
    /\ Pending(i, "login", "find")
    /\ LET user == FindOne(reqs[i].body.email)
       IN  reqs' = [reqs EXCEPT ![i] =
              IF user = Null
              THEN Respond(@, 401, "Invalid credentials", Null)
              ELSE [@ EXCEPT !.pc = "compare", !.doc = user]]
    /\ UNCHANGED <<now, env, users, assets, logs, hits, issued, faults>>

LoginCompareNoCheck(i) ==
    /\ Pending(i, "login", "compare")
    /\ LET user == reqs[i].doc
           token == Sign([id |-> user._id, email |-> user.email],
                         env.JWT_SECRET, SessionTTL, now)
       IN  /\ issued' = issued \cup {token}
           /\ reqs' = [reqs EXCEPT ![i] = Respond(@, 200, "", token)]
    /\ UNCHANGED <<now, env, users, assets, logs, hits, faults>>

\* await bcrypt.compare(password, user.hashed_password) resolves, then
\* jwt.sign and res.json({ token })
LoginCompare(i) ==
    /\ Pending(i, "login", "compare")
    /\ LET user == reqs[i].doc
           token == Sign([id |-> user._id, email |-> user.email],
                         env.JWT_SECRET, SessionTTL, now)
       IN  IF ~Compare(reqs[i].body.password, user.hashed_password)
           THEN /\ issued' = issued
                /\ reqs' = [reqs EXCEPT ![i] = Respond(@, 401, "Invalid credentials", Null)]
           ELSE /\ issued' = issued \cup {token}
                /\ reqs' = [reqs EXCEPT ![i] = Respond(@, 200, "", token)]
    /\ UNCHANGED <<now, env, users, assets, logs, hits, faults>>

(* -------------------------------- clock ------------------------------- *)
Tick(t) ==
    /\ t > now
    /\ now' = t
    /\ UNCHANGED <<env, users, assets, logs, hits, issued, reqs, faults>>

(* ------------------------- the state machine -------------------------- *)
\* The server starts against a database that already holds one asset, and
\* an operator holds a session token issued by POST /auth/login at time 0.
Operator == [id |-> "u1", email |-> "e1"]

Catalogue ==
    [x \in ObjectIds |->
        MediaAsset(x, [title |-> "t", type |-> "video",
                       file_url |-> IF x = "a1" THEN "u1" ELSE "u2"])]

Boot(streamSecret, ids) ==
    /\ now = 0
    /\ env = [JWT_SECRET |-> "k1", STREAM_TOKEN_SECRET |-> streamSecret]
    /\ users = <<AdminUser(Operator.id, Operator.email, Hash("p1"))>>
    /\ assets = [x \in ids |-> Catalogue[x]]
    /\ logs = <<>>
    /\ hits = [ip \in IPs |-> NoHits]
    /\ issued = {Sign(Operator, env.JWT_SECRET, SessionTTL, 0)}
    /\ reqs = <<>>
    /\ faults = 0

\* the deployment sets the two secrets, to different values or to the same one
Init == \E k \in Secrets : Boot(k, {"a1"})

SessionTokens == {t \in issued : "email" \in DOMAIN t.payload}
StreamTokens == issued \ SessionTokens
ForgedToken == Sign(Operator, "k0", SessionTTL, 0)

Bearer(t) == Header(<<Word("Bearer"), Sp, Tok(t)>>)

\* what a client may send as Authorization
Headers ==
    {NoHeader, Header(<<Word("Bearer")>>), Header(<<Word("Bearer"), Sp>>)}
        \cup {Header(<<Tok(t)>>) : t \in SessionTokens}
        \cup {Header(<<Word("Basic"), Sp, Tok(t)>>) : t \in SessionTokens}
        \cup {Bearer(t) : t \in issued \cup {MalformedToken, ForgedToken}}

Bodies ==
    {[title |-> "t2", type |-> "audio", file_url |-> "u2"],
     [title |-> "t2", type |-> "image", file_url |-> "u2"],
     [title |-> "", type |-> "video", file_url |-> "u2"]}

Good == {Bearer(t) : t \in SessionTokens}
InFlight == {i \in 1..Len(reqs) : reqs[i].pc \notin {"done", "hung"}}
Room(n) == Len(reqs) < n /\ Cardinality(InFlight) < MaxInFlight

(* View ingestion and its rate limiter: POST /media/:id/view from two IPs, *)
(* within one window and across its end.                                   *)
ViewInputs ==
    {[ip |-> ip, id |-> "a1", hdr |-> h] : ip \in IPs, h \in Good}
        \cup {[ip |-> "ip1", id |-> id, hdr |-> h] : id \in {"a2", "zz"}, h \in Good}
        \cup {[ip |-> "ip1", id |-> "a1", hdr |-> h] : h \in {NoHeader, Bearer(MalformedToken)}}

NextView ==
    \/ \E t \in {WindowSec - 1, WindowSec} : Tick(t)
    \/ /\ Room(MaxReqs)
       /\ \E v \in ViewInputs : ViewArrive(v.ip, v.id, v.hdr)
    \/ \E i \in 1..Len(reqs) : ViewLookup(i)
    \/ \E i \in 1..Len(reqs) : ViewSave(i)
    \/ \E i \in 1..Len(reqs) : StoreFailsCaught(i)
    \/ \E i \in 1..Len(reqs) : StoreFailsUncaught(i)

SpecView == Boot("k2", {"a1"}) /\ [][NextView]_vars

(* The analytics aggregator over a log that views and stream links of two  *)
(* assets fill, within a day and across its end.                           *)
AnalyticsViews ==
    {[ip |-> ip, id |-> "a1", hdr |-> h] : ip \in IPs, h \in Good}
        \cup {[ip |-> "ip1", id |-> "a2", hdr |-> h] : h \in Good}

NextAnalytics ==
    \/ Tick(DaySec)
    \/ /\ Room(MaxReqs)
       /\ \E v \in AnalyticsViews : ViewArrive(v.ip, v.id, v.hdr)
    \/ \E i \in 1..Len(reqs) : ViewLookup(i)
    \/ \E i \in 1..Len(reqs) : ViewSave(i)
    \/ /\ Room(MaxReqs)
       /\ StreamUrlArrive("ip2", "a1")
    \/ \E i \in 1..Len(reqs) : StreamUrlLookup(i)
    \/ \E i \in 1..Len(reqs) : StreamUrlSave(i)
    \/ /\ Room(MaxReqs)
       /\ \E id \in ObjectIds, hdr \in Good : AnalyticsArrive(id, hdr)
    \/ \E i \in 1..Len(reqs) : AnalyticsLookup(i)
    \/ \E i \in 1..Len(reqs) : AnalyticsFind(i)

SpecAnalytics == Boot("k2", ObjectIds) /\ [][NextAnalytics]_vars

(* Stream links and the two token classes: issuance, redemption before    *)
(* and after expiry, and each class presented where the other is expected. *)
RedeemRoutes == {"stream", "mediaStream"}
Presentable == issued \cup {MalformedToken, ForgedToken}

NextTokens ==
    \/ \E t \in {StreamTTL - 1, StreamTTL} : Tick(t)
    \/ /\ Room(MaxReqs)
       /\ \E id \in ObjectIds : StreamUrlArrive("ip1", id)
    \/ \E i \in 1..Len(reqs) : StreamUrlLookup(i)
    \/ \E i \in 1..Len(reqs) : StreamUrlSave(i)
    \/ /\ Room(MaxReqs)
       /\ \E tok \in issued \cup {MalformedToken} : Redeem("stream", tok)
    \/ /\ Room(MaxReqs)
       /\ \E tok \in issued : AnalyticsArrive("a1", Bearer(tok))
    \/ \E i \in 1..Len(reqs) : AnalyticsLookup(i)
    \/ \E i \in 1..Len(reqs) : AnalyticsFind(i)

SpecTokens == (\E k \in Secrets : Boot(k, ObjectIds)) /\ [][NextTokens]_vars

(* The authentication middleware in front of the three protected routes,  *)
(* with every form of Authorization header, before and after the session   *)
(* token expires.                                                          *)
NextAuth ==
    \/ \E t \in {SessionTTL - 1, SessionTTL} : Tick(t)
    \/ /\ Room(MaxReqsAll)
       /\ \E hdr \in Headers : ViewArrive("ip1", "a1", hdr)
    \/ \E i \in 1..Len(reqs) : ViewLookup(i)
    \/ \E i \in 1..Len(reqs) : ViewSave(i)
    \/ /\ Room(MaxReqsAll)
       /\ \E hdr \in Headers : AnalyticsArrive("a1", hdr)
    \/ \E i \in 1..Len(reqs) : AnalyticsLookup(i)
    \/ \E i \in 1..Len(reqs) : AnalyticsFind(i)
    \/ /\ Room(MaxReqsAll)
       /\ \E hdr \in Headers : MediaArrive(hdr, [title |-> "t2", type |-> "audio", file_url |-> "u2"])
    \/ \E i \in 1..Len(reqs) : MediaSave(i)

SpecAuth == Boot("k2", {"a1"}) /\ [][NextAuth]_vars

(* The whole API: every route with well-formed, unknown and malformed ids, *)
(* with and without credentials, with store operations that may fail.      *)
Credentials == {NoHeader, Bearer(MalformedToken)} \cup Good

Next ==
    \/ Tick(StreamTTL)
    \/ /\ Room(MaxReqsAll)
       /\ \E id \in ReqIds, hdr \in Credentials :
             (id = "a1" \/ hdr \in Good) /\ ViewArrive("ip1", id, hdr)
    \/ \E i \in 1..Len(reqs) : ViewLookup(i)
    \/ \E i \in 1..Len(reqs) : ViewSave(i)
    \/ /\ Room(MaxReqsAll)
       /\ \E id \in ReqIds, hdr \in Credentials :
             (id = "a1" \/ hdr \in Good) /\ AnalyticsArrive(id, hdr)
    \/ \E i \in 1..Len(reqs) : AnalyticsLookup(i)
    \/ \E i \in 1..Len(reqs) : AnalyticsFind(i)
    \/ /\ Room(MaxReqsAll)
       /\ \E id \in ReqIds : StreamUrlArrive("ip1", id)
    \/ \E i \in 1..Len(reqs) : StreamUrlLookup(i)
    \/ \E i \in 1..Len(reqs) : StreamUrlSave(i)
    \/ /\ Room(MaxReqsAll)
       /\ \E route \in RedeemRoutes, tok \in Presentable : Redeem(route, tok)
    \/ /\ Room(MaxReqsAll)
       /\ \E hdr \in Credentials, body \in Bodies :
             (body.type = "audio" \/ hdr \in Good) /\ MediaArrive(hdr, body)
    \/ \E i \in 1..Len(reqs) : MediaSave(i)
    \/ \E i \in 1..Len(reqs) : StoreFailsCaught(i)
    \/ \E i \in 1..Len(reqs) : StoreFailsUncaught(i)

Spec == Init /\ [][Next]_vars

(* Account creation: POST /auth/signup for a stored email, a new one and  *)
(* a body with a field missing, several at a time.                         *)
Credential(email, password) == [email |-> email, password |-> password]

SignupBodies ==
    {Credential("e1", "p1"), Credential("e2", "p2"), Credential("e2", "")}

NextSignup ==
    \/ /\ Room(MaxReqs)
       /\ \E body \in SignupBodies : SignupArrive(body)
    \/ \E i \in 1..Len(reqs) : SignupFind(i)
    \/ \E i \in 1..Len(reqs) : SignupHash(i)
    \/ \E i \in 1..Len(reqs) : SignupSave(i)

SpecSignup == Boot("k2", {"a1"}) /\ [][NextSignup]_vars

(* Sessions: POST /auth/login with right and wrong credentials, and the    *)
(* tokens it issues presented to a protected route before and after their  *)
(* expiry.                                                                 *)
LoginBodies ==
    {Credential("e1", "p1"), Credential("e1", "p2"), Credential("e2", "p2"),
     Credential("", "p1")}

NextLogin ==
    \/ \E t \in {SessionTTL - 1, SessionTTL, 2 * SessionTTL - 1} : Tick(t)
    \/ /\ Room(MaxReqs)
       /\ \E body \in LoginBodies : LoginArrive(body)
    \/ \E i \in 1..Len(reqs) : LoginFind(i)
    \/ \E i \in 1..Len(reqs) : LoginCompare(i)
    \/ /\ Room(MaxReqs)
       /\ \E t \in SessionTokens : AnalyticsArrive("a1", Bearer(t))
    \/ \E i \in 1..Len(reqs) : AnalyticsLookup(i)
    \/ \E i \in 1..Len(reqs) : AnalyticsFind(i)

SpecLogin == Boot("k2", {"a1"}) /\ [][NextLogin]_vars

(* Asset registration: POST /media with every kind of body, with and      *)
(* without a session, into an empty collection, with saves that may fail.  *)
MediaBodies ==
    Bodies \cup {[title |-> "t3", type |-> "video", file_url |-> "u3"],
                 [title |-> "t3", type |-> "", file_url |-> "u3"],
                 [title |-> "t3", type |-> "video", file_url |-> ""]}

NextMedia ==
    \/ Tick(SessionTTL)
    \/ /\ Room(MaxReqs)
       /\ \E hdr \in Credentials, body \in MediaBodies : MediaArrive(hdr, body)
    \/ \E i \in 1..Len(reqs) : MediaSave(i)
    \/ \E i \in 1..Len(reqs) : StoreFailsCaught(i)

SpecMedia == Boot("k2", {}) /\ [][NextMedia]_vars

(* Stream links next to view ingestion: GET /media/:id/stream-url from two *)
(* IPs for stored, unknown and malformed ids, with store operations that   *)
(* may fail, while one IP also posts views within a rate-limit window.     *)
LinkInputs ==
    {[ip |-> ip, id |-> "a1"] : ip \in IPs}
        \cup {[ip |-> "ip1", id |-> id] : id \in {"a2", "zz"}}

NextLinks ==
    \/ Tick(WindowSec)
    \/ /\ Room(MaxReqs)
       /\ \E hdr \in Good : ViewArrive("ip1", "a1", hdr)
    \/ \E i \in 1..Len(reqs) : ViewLookup(i)
    \/ \E i \in 1..Len(reqs) : ViewSave(i)
    \/ /\ Room(MaxReqs)
       /\ \E l \in LinkInputs : StreamUrlArrive(l.ip, l.id)
    \/ \E i \in 1..Len(reqs) : StreamUrlLookup(i)
    \/ \E i \in 1..Len(reqs) : StreamUrlSave(i)
    \/ \E i \in 1..Len(reqs) : StoreFailsCaught(i)

SpecLinks == Boot("k2", {"a1"}) /\ [][NextLinks]_vars

(* Redemption on both endpoints: GET /stream/:token and                    *)
(* GET /media/stream/:token with issued, expired and malformed tokens,     *)
(* any number of times.                                                    *)
NextRedeem ==
    \/ \E t \in {StreamTTL - 1, StreamTTL} : Tick(t)
    \/ /\ Room(MaxReqs)
       /\ StreamUrlArrive("ip1", "a1")
    \/ \E i \in 1..Len(reqs) : StreamUrlLookup(i)
    \/ \E i \in 1..Len(reqs) : StreamUrlSave(i)
    \/ /\ Room(MaxReqs)
       /\ \E route \in RedeemRoutes, tok \in Presentable : Redeem(route, tok)

SpecRedeem == Init /\ [][NextRedeem]_vars

(* ----------------------------- C1 ------------------------------------- *)
Done(i) == reqs[i].pc = "done"
Views == {i \in 1..Len(reqs) : reqs[i].route = "view"}

\* two authenticated view requests of one IP counted in the same window,
\* i received before j
SameWindow(i, j) ==
    /\ i \in Views /\ j \in Views /\ i < j
    /\ reqs[i].limit # -1
    /\ reqs[i].ip = reqs[j].ip
    /\ reqs[i].limit = reqs[j].limit

FirstInWindow(i) == ~ \E k \in Views : SameWindow(k, i)

\* C1 as claimed: of any two authenticated view requests for an existing asset
\* from one IP within one rate-limit window, exactly one is answered 201 and
\* the other 429.
C1_ExactlyOne201 ==
    \A i, j \in Views :
        (/\ SameWindow(i, j)
         /\ reqs[i].id \in DOMAIN assets /\ reqs[j].id \in DOMAIN assets
         /\ Done(i) /\ Done(j))
        => {reqs[i].status, reqs[j].status} = {201, 429}

\* C1 as amended: of any two authenticated view requests from one IP within one
\* rate-limit window the later one is always answered 429, so the two never
\* both pass the limiter; the earlier one passes only if it is the IP's first
\* authenticated view request of the window, and is then answered 201 when its
\* asset exists and neither the asset lookup nor the log write fails.
C1_AtMostOnePasses ==
    \A i, j \in Views :
        SameWindow(i, j) =>
            /\ reqs[j].status = 429
            /\ ~FirstInWindow(i) => reqs[i].status = 429
            /\ (FirstInWindow(i) /\ Done(i) /\ ~reqs[i].failed /\ reqs[i].id \in DOMAIN assets)
                   => reqs[i].status = 201

C1_Witness ==
    \E i, j \in Views :
        /\ SameWindow(i, j)
        /\ reqs[i].status = 201
        /\ reqs[j].status = 429
        /\ reqs[j].id \in DOMAIN assets

(* ----------------------------- C2 ------------------------------------- *)
\* the view requests that a step answers 201
Accepting ==
    {i \in 1..Len(reqs') :
        /\ reqs'[i].route = "view"
        /\ reqs'[i].status = 201
        /\ (i > Len(reqs) \/ reqs[i].status # 201)}

\* C2: a step that answers a view request 201 appends exactly one entry
\* {media_id = the requested asset, viewed_by_ip = the caller's IP, timestamp =
\* the time the handler built it}, and every other step of the endpoint (any
\* other outcome included) leaves the log as it was; so the entries created
\* by the endpoint are as many as its 201 responses.
C2_OneEntryPerAccepted ==
    [][/\ Cardinality(Accepting) <= 1
       /\ Accepting = {} => logs' = logs
       /\ \A i \in Accepting :
             /\ i <= Len(reqs)
             /\ logs' = Append(logs, [media_id |-> reqs[i].id,
                                      viewed_by_ip |-> reqs[i].ip,
                                      timestamp |-> reqs[i].doc.timestamp])
       /\ \A i \in 1..Len(reqs) :
             (Pending(i, "view", "lookup") /\ reqs'[i].pc = "save")
                 => reqs'[i].doc.timestamp = now]_vars

C2_Witness ==
    /\ Len(logs) = 2
    /\ Cardinality({i \in Views : reqs[i].status = 201}) = 2
    /\ \E i \in Views : reqs[i].status \in {400, 401, 403, 404, 429, 500}

(* ----------------------------- C3 ------------------------------------- *)
Reads == {i \in 1..Len(reqs) : reqs[i].route = "analytics" /\ reqs[i].status = 200}

\* the entries of request i's asset in the log as request i read it
EntriesAt(i) == {k \in 1..reqs[i].seen : logs[k].media_id = reqs[i].id}
DaysAt(i) == {logs[k].timestamp \div DaySec : k \in EntriesAt(i)}

RECURSIVE SumOver(_, _)
SumOver(f, S) ==
    IF S = {} THEN 0
    ELSE LET x == CHOOSE y \in S : TRUE IN f[x] + SumOver(f, S \ {x})

\* C3: an analytics response for an asset with N logged views from K distinct
\* IPs on D distinct UTC days has total_views = N, unique_ips = K and a
\* views_per_day with exactly those D days as keys, each with the number of
\* that day's views, summing to N.
C3_SummaryCounts ==
    \A i \in Reads :
        LET s == reqs[i].out
        IN  /\ s.total_views = Cardinality(EntriesAt(i))
            /\ s.unique_ips = Cardinality({logs[k].viewed_by_ip : k \in EntriesAt(i)})
            /\ DOMAIN s.views_per_day = DaysAt(i)
            /\ \A d \in DaysAt(i) :
                  s.views_per_day[d] =
                      Cardinality({k \in EntriesAt(i) : logs[k].timestamp \div DaySec = d})
            /\ SumOver(s.views_per_day, DOMAIN s.views_per_day) = s.total_views

C3_Witness ==
    \E i \in Reads :
        /\ reqs[i].out.total_views = 2
        /\ reqs[i].out.unique_ips = 2
        /\ Cardinality(DOMAIN reqs[i].out.views_per_day) = 2
        /\ reqs[i].seen = 2

(* ----------------------------- C8 ------------------------------------- *)
ByAnalytics ==
    \E i \in 1..Len(reqs') :
        /\ reqs'[i].route = "analytics"
        /\ (i > Len(reqs) \/ reqs'[i] # reqs[i])

\* of two analytics responses for one asset, j having read the log no earlier
\* than i: the same summary when no entry of the asset lies between the two
\* reads, and otherwise a greater total and no smaller value anywhere
Monotone ==
    \A i, j \in Reads :
        (reqs[i].id = reqs[j].id /\ reqs[i].seen <= reqs[j].seen) =>
            LET a == reqs[i].out
                b == reqs[j].out
            IN  IF EntriesAt(i) = EntriesAt(j)
                THEN a = b
                ELSE /\ b.total_views > a.total_views
                     /\ b.unique_ips >= a.unique_ips
                     /\ \A d \in DOMAIN a.views_per_day :
                           /\ d \in DOMAIN b.views_per_day
                           /\ b.views_per_day[d] >= a.views_per_day[d]

Arrives == Len(reqs') = Len(reqs) + 1
Arrived == reqs'[Len(reqs')]

\* the file_url of the asset for which a stream-url response delivered `tok`
BoundUrls(tok) ==
    {assets[reqs[i].id].file_url :
        i \in {j \in 1..Len(reqs) : /\ reqs[j].route = "streamUrl"
                                    /\ reqs[j].status = 200
                                    /\ reqs[j].out = tok}}

\* C4: a stream token is stamped with the time of its signing; redeeming an
\* issued stream token strictly before issued_at + 10 minutes answers 200 with
\* the file_url of the asset it was issued for, and at that instant or later
\* answers 403, whatever redemptions came before.
C4_RedeemUntilExpiry ==
    [][/\ \A i \in 1..Len(reqs) :
             (Pending(i, "streamUrl", "lookup") /\ reqs'[i].pc = "save")
                 => reqs'[i].tok.iat = now
       /\ (Arrives /\ Arrived.route \in RedeemRoutes /\ Arrived.tok \in StreamTokens)
             => IF now < Arrived.tok.iat + StreamTTL
                THEN /\ Arrived.status = 200
                     /\ BoundUrls(Arrived.tok) = {Arrived.out.fileUrl}
                ELSE Arrived.status = 403]_vars

C4_Witness ==
    \E i, j \in 1..Len(reqs) :
        /\ i < j
        /\ reqs[i].route \in RedeemRoutes
        /\ reqs[j].route \in RedeemRoutes
        /\ reqs[i].tok \in StreamTokens
        /\ reqs[i].tok = reqs[j].tok
        /\ reqs[i].status = 200 /\ reqs[i].out.fileUrl = "u2"
        /\ reqs[j].status = 403

(* ----------------------------- C10 ------------------------------------ *)
Protected == {"media", "view", "analytics"}

StreamTokenAsBearer ==
    /\ Arrives
    /\ Arrived.route \in Protected
    /\ \E t \in StreamTokens : Arrived.hdr = Bearer(t) /\ now < t.exp

SessionTokenAsLink ==
    /\ Arrives
    /\ Arrived.route \in RedeemRoutes
    /\ Arrived.tok \in SessionTokens
    /\ now < Arrived.tok.exp

\* C10 as claimed: an unexpired stream token sent as Bearer credential to a
\* session-protected route is always answered 403, and an unexpired session
\* token redeemed as a stream link is always answered 403.
C10_NeverInterchangeable ==
    [][(StreamTokenAsBearer \/ SessionTokenAsLink) => Arrived.status = 403]_vars

\* C10 as amended: that holds whenever the deployment sets JWT_SECRET and
\* STREAM_TOKEN_SECRET to different values; when both are set to the same
\* value each class of token is accepted where the other is expected.
C10_InterchangeableIffSameSecret ==
    [][(StreamTokenAsBearer \/ SessionTokenAsLink) =>
          (Arrived.status = 403 <=> env.JWT_SECRET # env.STREAM_TOKEN_SECRET)]_vars

C10_Witness ==
    /\ env.JWT_SECRET # env.STREAM_TOKEN_SECRET
    /\ \E i \in 1..Len(reqs) :
          /\ reqs[i].route \in Protected
          /\ reqs[i].status = 403
          /\ \E t \in StreamTokens : reqs[i].hdr = Bearer(t) /\ now < t.exp
    /\ \E i \in 1..Len(reqs) :
          /\ reqs[i].route \in RedeemRoutes
          /\ reqs[i].status = 403
          /\ reqs[i].tok \in SessionTokens
          /\ now < reqs[i].tok.exp


(* ----------------------------- C5 ------------------------------------- *)
\* the header as the client wrote it: where its first space is, and what
\* stands between that space and the next one
Spaces(h) == {i \in 1..Len(h.chars) : h.chars[i] = Sp}
FirstSpace(h) == CHOOSE i \in Spaces(h) : \A j \in Spaces(h) : i <= j

NoSecondPart(h) ==
    \/ ~h.present
    \/ Spaces(h) = {}
    \/ FirstSpace(h) = Len(h.chars)
    \/ h.chars[FirstSpace(h) + 1] = Sp

PresentsValidSession(h) ==
    /\ ~NoSecondPart(h)
    /\ LET p == FirstSpace(h) + 1
       IN  /\ h.chars[p].k = "tok"
           /\ p = Len(h.chars) \/ h.chars[p + 1] = Sp
           /\ h.chars[p].t.fmt = "jwt"
           /\ h.chars[p].t.key = env.JWT_SECRET
           /\ now < h.chars[p].t.exp

Refused(r) == r.status \in {401, 403}

\* C5: on POST /media, POST /media/:id/view and GET /media/:id/analytics a
\* request whose Authorization header is absent or has no second
\* space-separated part is answered 401, one whose presented token is
\* malformed, expired or signed with another secret is answered 403, and in
\* both cases the handler is never run: the request is answered on arrival,
\* the limiter does not count it, no store is touched and nothing happens
\* to it afterwards.
C5_AuthBeforeHandler ==
    [][/\ (Arrives /\ Arrived.route \in Protected) =>
             /\ NoSecondPart(Arrived.hdr) => Arrived.status = 401
             /\ (~NoSecondPart(Arrived.hdr) /\ ~PresentsValidSession(Arrived.hdr))
                   => Arrived.status = 403
             /\ PresentsValidSession(Arrived.hdr) => ~Refused(Arrived)
             /\ Refused(Arrived) =>
                   /\ Arrived.pc = "done"
                   /\ Arrived.limit = -1
                   /\ Arrived.wrote = 0
                   /\ UNCHANGED <<hits, assets, logs>>
       /\ \A i \in 1..Len(reqs) :
             (reqs[i].route \in Protected /\ Refused(reqs[i])) => reqs'[i] = reqs[i]]_vars

\* a header with an empty second part was answered 401 and an expired
\* session token 403, on protected routes
C5_Witness ==
    \E i, j \in 1..Len(reqs) :
       /\ reqs[i].route \in Protected
       /\ reqs[i].hdr = Header(<<Word("Bearer"), Sp>>)
       /\ reqs[i].status = 401
       /\ reqs[j].route \in Protected
       /\ reqs[j].hdr \in Good
       /\ reqs[j].status = 403
       /\ now >= SessionTTL

(* ----------------------------- C6 ------------------------------------- *)
\* C6: every store failure during a request is caught and answered with a
\* 500 carrying the generic message, so the request has a response.
C6_EveryFailureAnswered500 ==
    \A i \in 1..Len(reqs) :
       reqs[i].failed =>
          /\ Done(i)
          /\ reqs[i].status = 500
          /\ reqs[i].msg = "Server error"

\* the asset lookup of a view or analytics request failed and the request
\* is left without a response
C6_Witness ==
    \E i \in 1..Len(reqs) :
       /\ reqs[i].route \in {"view", "analytics"}
       /\ reqs[i].failed
       /\ reqs[i].pc = "hung"

(* ----------------------------- C7 ------------------------------------- *)
Refusals == {400, 401, 403, 404, 429}

\* C7: the step that answers a request 400, 401, 403, 404 or 429 changes
\* neither the view log nor the asset store, such a request has performed
\* no write before it, and a request for a malformed asset id is answered
\* on arrival and never waits for the asset store.
C7_RefusalsWriteNothing ==
    [][\A i \in 1..Len(reqs') :
          /\ (reqs'[i].status \in Refusals /\ (i > Len(reqs) \/ reqs[i].status = 0))
                => (logs' = logs /\ assets' = assets)
          /\ reqs'[i].status \in Refusals
                => (reqs'[i].wrote = 0 /\ reqs'[i].pc = "done")
          /\ (reqs'[i].route \in {"view", "analytics", "streamUrl"}
                 /\ reqs'[i].id \in MalformedIds)
                => (reqs'[i].pc = "done" /\ reqs'[i].status \in Refusals
                       /\ reqs'[i].doc = Null)]_vars

\* a request for an unknown asset was answered 404 and one for a malformed
\* id 400
C7_Witness ==
    \E i, j \in 1..Len(reqs) :
       /\ reqs[i].status = 404
       /\ reqs[i].id \in ObjectIds \ DOMAIN assets
       /\ reqs[j].status = 400
       /\ reqs[j].id \in MalformedIds

(* ----------------------------- C9 ------------------------------------- *)
\* C9: every entry is appended to the view log with the media_id of an
\* asset that is in the asset store at that step, by POST /media/:id/view
\* and by GET /media/:id/stream-url alike, and so every entry of the log
\* references a stored asset.
C9_EntriesReferenceAssets ==
    [][/\ \A k \in (Len(logs) + 1)..Len(logs') : logs'[k].media_id \in DOMAIN assets
       /\ \A k \in 1..Len(logs') : logs'[k].media_id \in DOMAIN assets']_vars

\* both routes have written an entry
C9_Witness ==
    \E i, j \in 1..Len(reqs) :
       /\ reqs[i].route = "view" /\ reqs[i].status = 201
       /\ reqs[j].route = "streamUrl" /\ reqs[j].status = 200
       /\ Len(logs) = 2


(* ----------------------------- C11 ------------------------------------ *)
Signups == {i \in 1..Len(reqs) : reqs[i].route = "signup"}
ValidPayload(body) == body.email \in Emails /\ body.password \in Passwords

\* C11: whatever the order and interleaving of POST /auth/signup requests,
\* no email has more than one credential record, and every answered signup
\* with a valid payload was answered 201 having created the record or 409
\* having created none.
C11_OneRecordPerEmail ==
    /\ \A e \in Emails : Len(WithEmail(e)) <= 1
    /\ \A i \in Signups :
          (Done(i) /\ ValidPayload(reqs[i].body)) =>
             \/ reqs[i].status = 201 /\ reqs[i].wrote = 1
             \/ reqs[i].status = 409 /\ reqs[i].wrote = 0

\* two signups for the same new email were both answered 201 and the
\* collection holds two records with that email
C11_Witness ==
    \E i, j \in Signups :
       /\ i # j
       /\ reqs[i].body.email = reqs[j].body.email
       /\ reqs[i].status = 201
       /\ reqs[j].status = 201
       /\ Len(WithEmail(reqs[i].body.email)) = 2

(* ----------------------------- C12 ------------------------------------ *)
PresentsSession(t) ==
    /\ Arrives
    /\ Arrived.route \in Protected
    /\ Arrived.hdr = Bearer(t)

\* C12: a session token presented to the authentication middleware is
\* accepted at every instant before its issue time plus one hour and
\* answered 403 at that instant and later; and POST /auth/login hands out
\* a token only in the step that answers 200 to a request whose email is
\* stored and whose password is the one stored with it.
C12_SessionUntilExpiry ==
    [][/\ \A t \in SessionTokens :
             PresentsSession(t) =>
                IF now < t.iat + SessionTTL
                THEN ~Refused(Arrived)
                ELSE Arrived.status = 403
       /\ \A t \in issued' \ issued :
             "email" \in DOMAIN t.payload =>
                \E i \in 1..Len(reqs), k \in 1..Len(users) :
                   /\ reqs[i].route = "login"
                   /\ reqs'[i].status = 200
                   /\ reqs'[i].out = t
                   /\ users[k].email = reqs[i].body.email
                   /\ users[k].hashed_password.bcrypt = reqs[i].body.password
                   /\ t.payload = [id |-> users[k]._id, email |-> users[k].email]
                   /\ t.iat = now]_vars

\* a token issued by a login after the server started was accepted more
\* than an hour after the start and then refused with 403 once its own
\* hour had passed
C12_Witness ==
    \E i, j \in 1..Len(reqs), t \in SessionTokens :
       /\ t.iat > 0
       /\ reqs[i].hdr = Bearer(t)
       /\ reqs[i].status = 200
       /\ reqs[j].hdr = Bearer(t)
       /\ reqs[j].status = 403


(* ----------------------------- C13 ------------------------------------ *)
\* an answered analytics request that passed authentication, for a stored
\* asset none of whose entries was in the log when the request read it
ReadOfUnviewed(i) ==
    /\ reqs[i].route = "analytics"
    /\ Done(i)
    /\ ~Refused(reqs[i])
    /\ reqs[i].id \in DOMAIN assets
    /\ \A k \in 1..Len(logs) : k <= reqs[i].seen => logs[k].media_id # reqs[i].id

\* C13: GET /media/:id/analytics for a stored asset with no view-log entry
\* is answered 200 with total_views = 0, unique_ips = 0 and an empty
\* views_per_day.
C13_ZeroViewsZeroSummary ==
    \A i \in 1..Len(reqs) :
       ReadOfUnviewed(i) =>
          /\ reqs[i].status = 200
          /\ reqs[i].out = [total_views |-> 0, unique_ips |-> 0, views_per_day |-> <<>>]

\* an asset without entries was summarised while the log held an entry of
\* another asset
C13_Witness ==
    \E i \in 1..Len(reqs) :
       /\ ReadOfUnviewed(i)
       /\ reqs[i].seen > 0


(* ----------------------------- C14 ------------------------------------ *)
WellFormedAsset(a) ==
    /\ a.title # ""
    /\ a.file_url # ""
    /\ a.type \in {"video", "audio"}

\* C14: an asset enters the store only in the step that answers 201 to a
\* POST /media that presented a session token and whose body had a title,
\* a file_url and the type video or audio, and it carries those fields, so
\* every stored asset has them; a POST /media that passed authentication
\* with a field missing or any other type is answered 400 on arrival and
\* creates nothing.
C14_OnlyValidAssets ==
    [][/\ \A id \in DOMAIN assets' \ DOMAIN assets :
             \E i \in 1..Len(reqs) :
                /\ reqs[i].route = "media"
                /\ \E t \in SessionTokens : reqs[i].hdr = Bearer(t)
                /\ WellFormedAsset(reqs[i].body)
                /\ reqs'[i].status = 201
                /\ reqs'[i].out = assets'[id]
                /\ assets'[id] = [_id |-> id, title |-> reqs[i].body.title,
                                  type |-> reqs[i].body.type,
                                  file_url |-> reqs[i].body.file_url]
       /\ \A id \in DOMAIN assets' : WellFormedAsset(assets'[id])
       /\ (Arrives /\ Arrived.route = "media" /\ ~Refused(Arrived)
              /\ ~WellFormedAsset(Arrived.body))
             => (Arrived.status = 400 /\ Arrived.pc = "done" /\ assets' = assets)
       /\ \A i \in 1..Len(reqs') :
             (reqs'[i].route = "media" /\ reqs'[i].status = 400) => reqs'[i].wrote = 0]_vars

\* an asset was created, and requests with another type and with a missing
\* field were answered 400
C14_Witness ==
    \E i, j, k \in 1..Len(reqs) :
       /\ reqs[i].route = "media" /\ reqs[i].status = 201
       /\ reqs[i].out._id \in DOMAIN assets
       /\ reqs[j].route = "media" /\ reqs[j].status = 400 /\ reqs[j].body.type = "image"
       /\ reqs[k].route = "media" /\ reqs[k].status = 400 /\ reqs[k].body.title = ""


(* ----------------------------- C15 ------------------------------------ *)
Links == {i \in 1..Len(reqs) : reqs[i].route = "streamUrl"}

\* C15: the step that answers a stream-url request 200 with its token
\* appends exactly one entry, for the requested asset and the requester's
\* IP, and is the only step that hands a stream token to a client; a
\* stream-url request answered 400, 404 or 500 carries no token and has
\* written nothing.
C15_TokenOnlyWithEntry ==
    [][/\ \A i \in Links :
             (reqs[i].status = 0 /\ reqs'[i].status = 200) =>
                /\ Len(logs') = Len(logs) + 1
                /\ SubSeq(logs', 1, Len(logs)) = logs
                /\ logs'[Len(logs')].media_id = reqs[i].id
                /\ logs'[Len(logs')].viewed_by_ip = reqs[i].ip
                /\ reqs'[i].wrote = 1
                /\ reqs'[i].out \in issued'
                /\ reqs'[i].out.payload.mediaId = reqs[i].id
       /\ \A i \in 1..Len(reqs') :
             (reqs'[i].route = "streamUrl" /\ reqs'[i].status \in {400, 404, 500}) =>
                (reqs'[i].out = Null /\ reqs'[i].wrote = 0)
       /\ \A t \in issued' \ issued :
             "mediaId" \in DOMAIN t.payload =>
                \E i \in Links :
                   /\ reqs[i].status = 0
                   /\ reqs'[i].status = 200
                   /\ reqs'[i].out = t
                   /\ logs' = Append(logs, [media_id |-> t.payload.mediaId,
                                            viewed_by_ip |-> reqs[i].ip,
                                            timestamp |-> reqs[i].doc.timestamp])]_vars

\* one stream-url request got its token and its entry, another was answered
\* 500 after a failed store operation and a third 404
C15_Witness ==
    \E i, j, k \in Links :
       /\ reqs[i].status = 200 /\ reqs[i].out \in StreamTokens
       /\ \E n \in 1..Len(logs) : logs[n].viewed_by_ip = reqs[i].ip
       /\ reqs[j].status = 500 /\ reqs[j].failed
       /\ reqs[k].status = 404


(* ----------------------------- C16 ------------------------------------ *)
\* no authenticated view request of this IP has been counted in a window
\* that is still open
BudgetUnused(ip) ==
    \A j \in Views :
       (reqs[j].ip = ip /\ ~Refused(reqs[j])) => reqs[j].limit <= now

\* C16: a view request answered 401 or 403 leaves the limiter's store as it
\* was, so the first authenticated view request of an IP in a window passes
\* the limiter however many refused ones came before it, and is answered
\* 201 when its asset is stored and no store operation of it fails.
C16_RefusedViewsAreFree ==
    [][/\ (Arrives /\ Arrived.route = "view" /\ Refused(Arrived)) => hits' = hits
       /\ (Arrives /\ Arrived.route = "view" /\ ~Refused(Arrived)
              /\ BudgetUnused(Arrived.ip))
             => /\ Arrived.status # 429
                /\ Arrived.id \in DOMAIN assets => Arrived.pc = "lookup"
       /\ \A i \in 1..Len(reqs') :
             (/\ reqs'[i].route = "view"
              /\ reqs'[i].pc = "done"
              /\ reqs'[i].status \notin {401, 403, 429}
              /\ ~reqs'[i].failed
              /\ reqs'[i].id \in DOMAIN assets)
             => reqs'[i].status = 201]_vars

\* an IP's view requests were answered 401, then 403, then 201
C16_Witness ==
    \E i, j, k \in Views :
       /\ i < k /\ j < k
       /\ reqs[i].ip = reqs[k].ip /\ reqs[j].ip = reqs[k].ip
       /\ reqs[i].status = 401
       /\ reqs[j].status = 403
       /\ reqs[k].status = 201
       /\ reqs[k].limit = WindowSec

(* ----------------------------- C17 ------------------------------------ *)
Accepted(ip, window) ==
    {i \in Views : reqs[i].ip = ip /\ reqs[i].limit = window /\ reqs[i].status = 201}

\* C17: an authenticated view request that ends in 400 or 404 has used its
\* IP's budget for the window: every later authenticated view request of
\* that IP in the window is answered 429; and an IP gets at most one 201
\* in a window.
C17_EveryRequestCounts ==
    /\ \A i, j \in Views :
          (SameWindow(i, j) /\ reqs[i].status \in {400, 404}) => reqs[j].status = 429
    /\ \A i \in Views :
          reqs[i].limit # -1 => Cardinality(Accepted(reqs[i].ip, reqs[i].limit)) <= 1

\* after a 404 for an unknown asset, a view of a stored asset from the same
\* IP in the same window was answered 429, and the IP has no 201 in it
C17_Witness ==
    \E i, j \in Views :
       /\ SameWindow(i, j)
       /\ reqs[i].status = 404
       /\ reqs[j].status = 429
       /\ reqs[j].id \in DOMAIN assets
       /\ Accepted(reqs[j].ip, reqs[j].limit) = {}

(* ----------------------------- C18 ------------------------------------ *)
TotalViews(id) == Summary(Find(id)).total_views

\* C18: a stream-url request is answered without credentials and without
\* touching the limiter's store, whatever the IP's view count, and every
\* one answered 200 raises its asset's total_views by one; so the log holds
\* one entry for every 200 of stream-url and every 201 of view.
C18_LinksAreUnlimited ==
    [][/\ (Arrives /\ Arrived.route = "streamUrl")
             => /\ hits' = hits
                /\ Arrived.limit = -1
                /\ Arrived.status \notin {401, 403, 429}
                /\ Arrived.id \in ObjectIds => Arrived.pc = "lookup"
       /\ \A i \in Links :
             (reqs[i].status = 0 /\ reqs'[i].status = 200) =>
                TotalViews(reqs[i].id)' = TotalViews(reqs[i].id) + 1
       /\ Len(logs') =
             Cardinality({i \in 1..Len(reqs') :
                             \/ reqs'[i].route = "streamUrl" /\ reqs'[i].status = 200
                             \/ reqs'[i].route = "view" /\ reqs'[i].status = 201})]_vars

\* within one window an IP spent its view budget and then got two stream
\* links, and the asset has three views
C18_Witness ==
    \E i \in Views, j, k \in Links :
       /\ j # k
       /\ reqs[i].ip = reqs[j].ip /\ reqs[i].ip = reqs[k].ip
       /\ reqs[i].status = 201 /\ i < j /\ i < k
       /\ reqs[j].status = 200 /\ reqs[k].status = 200
       /\ now < reqs[i].limit
       /\ hits[reqs[i].ip].totalHits >= RateLimitMax
       /\ TotalViews(reqs[i].id) = 3


(* ----------------------------- C19 ------------------------------------ *)
Redemptions == {i \in 1..Len(reqs) : reqs[i].route \in RedeemRoutes}

\* C19: a redemption on either endpoint is answered on arrival with 200 or
\* 403 and changes no collection, no limiter count and no issued token;
\* nothing of earlier redemptions enters its outcome: a token answered 200
\* before is answered 200 with the same file again while it has not
\* expired, on either endpoint, and one answered 403 before is answered
\* 403 again.
C19_RedemptionIsStateless ==
    [][(Arrives /\ Arrived.route \in RedeemRoutes) =>
          /\ UNCHANGED <<users, assets, logs, hits, issued, env>>
          /\ Arrived.pc = "done"
          /\ Arrived.wrote = 0
          /\ Arrived.status \in {200, 403}
          /\ \A j \in Redemptions :
                reqs[j].tok = Arrived.tok =>
                   /\ (reqs[j].status = 200 /\ now < Arrived.tok.exp)
                         => (Arrived.status = 200 /\ Arrived.out = reqs[j].out)
                   /\ reqs[j].status = 403 => Arrived.status = 403]_vars

\* one stream token was redeemed on both endpoints with the same answer,
\* and the log holds only the entry written when it was issued
C19_Witness ==
    \E i, j \in Redemptions :
       /\ reqs[i].tok \in StreamTokens
       /\ reqs[j].tok = reqs[i].tok
       /\ reqs[i].route = "stream" /\ reqs[j].route = "mediaStream"
       /\ reqs[i].status = 200 /\ reqs[j].status = 200
       /\ reqs[i].out = reqs[j].out
       /\ Len(logs) = 1

====
